---- MODULE Spec2Model ----
(***************************************************************************)
(* State-machine model of the SwarmPAL dashboards' reactive                *)
(* state-and-caching controller (dashboards/TFA.py).                       *)
(*                                                                         *)
(* Conventions of the model:                                               *)
(*  - Dataset handles are object identities (1..NumIds) into `heap`; the   *)
(*    content of a dataset is the data-source descriptor it was fetched    *)
(*    with plus the sequence of processing steps applied to it so far.     *)
(*    Python's None handle is the identity 0.                              *)
(*  - Widget float values are scaled by 1000 (0.02 Hz is 20).              *)
(*  - Every collaborator call that can raise (fetch, each processing step, *)
(*    the HTML representation, the snippet templates, the plot) raises or  *)
(*    not according to the failure point `fp` chosen for the event.        *)
(*  - A handler is a composition of step operators over a record holding   *)
(*    the instance and module state; field `ctl` is the control state      *)
(*    ("run", "return" after a return statement, "raise" while an          *)
(*    exception propagates).                                               *)
(***************************************************************************)
EXTENDS Integers, Sequences, FiniteSets, TLC

(***************************************************************************)
(* Bounds of the model                                                     *)
(***************************************************************************)
\* at most this many processing widgets away from their default at a time
MaxChanged == 1
\* user events per session
MaxEvents == 2
\* the frame keys of a DSECS plot are 0..MaxKey
MaxKey == 2

(***************************************************************************)
(* Values                                                                  *)
(***************************************************************************)
NoId == 0
NumIds == 4
Ids == 1..NumIds
NoObj == [kind |-> "free"]
NoArt == [kind |-> "none"]
NoCache == [kind |-> "absent"]
NoTabs == -1
NoFile == [kind |-> "nofile"]
NoCfg == [kind |-> "nocfg"]
ConfigError == [kind |-> "raise"]

\* an uploaded CDF file: the user's file name (product, date-and-version
\* suffix, extension) and the server's temporary file
UploadedFile ==
    [kind |-> "file", product |-> "SW_OPER_MAGB_LR_1B",
     suffix |-> "_20260101T000000_20260101T235959_0605", ext |-> ".cdf",
     name |-> "SW_OPER_MAGB_LR_1B_20260101T000000_20260101T235959_0605.cdf",
     tmp |-> "tmpfile"]

DefaultRange == <<"2026-01-01T00:00:00", "2026-01-02T00:00:00">>
OtherRange == <<"2026-01-03T00:00:00", "2026-01-04T00:00:00">>

\* the object of a Markdown or HTML pane holding a literal string
Text(str) == [kind |-> "text", text |-> str]

DefaultTitle == "# SwarmPAL TFA Quicklook"

ProcessWidgets ==
    {"preprocess-active-component", "preprocess-sampling-rate",
     "clean-method", "clean-window-size", "clean-multiplier",
     "filter-cutoff", "wavelet-min-frequency", "wavelet-max-frequency",
     "wavelet-dj"}

SourceWidgets == {"spacecraft", "start-end", "file-dropper"}

WidgetNames == ProcessWidgets \cup SourceWidgets

\* the widget dictionary as created at module level
DefaultWidgets ==
    [w \in WidgetNames |->
        CASE w = "spacecraft" -> "Swarm-A"
          [] w = "start-end" -> DefaultRange
          [] w = "file-dropper" -> NoFile
          [] w = "preprocess-active-component" -> 2
          [] w = "preprocess-sampling-rate" -> 1000
          [] w = "clean-window-size" -> 300
          [] w = "clean-multiplier" -> 500
          [] w = "clean-method" -> "iqr"
          [] w = "filter-cutoff" -> 20
          [] w = "wavelet-min-frequency" -> 20
          [] w = "wavelet-max-frequency" -> 100
          [] w = "wavelet-dj" -> 100]

\* the values a user can give a widget (a sample of each widget's range)
WidgetOptions(w) ==
    CASE w = "spacecraft" -> {"Swarm-A", "Swarm-B", "Swarm-C"}
      [] w = "start-end" -> {DefaultRange, OtherRange}
      [] w = "file-dropper" -> {NoFile, UploadedFile}
      [] w = "preprocess-active-component" -> {0, 1, 2}
      [] w = "preprocess-sampling-rate" -> {1000, 2000}
      [] w = "clean-window-size" -> {300, 400}
      [] w = "clean-multiplier" -> {500, 600}
      [] w = "clean-method" -> {"iqr", "normal"}
      [] w = "filter-cutoff" -> {20, 21}
      [] w = "wavelet-min-frequency" -> {20, 21}
      [] w = "wavelet-max-frequency" -> {100, 101}
      [] w = "wavelet-dj" -> {100, 110}

(***************************************************************************)
(* State                                                                   *)
(***************************************************************************)
VARIABLES
    phase,          \* position in the module-level code of a session
    widgets,        \* module-level widget dictionary: name -> value
    cache,          \* pn.state.cache["tfa_precache"], or NoCache
    heap,           \* dataset objects: identity -> content
    raw_data,       \* TFA_GUI.raw_data
    data,           \* TFA_GUI.data
    data_tabs,      \* TFA_GUI.data_tabs: NoTabs, or the active tab index
    output_title,   \* panes
    swarmpal_quicklook,
    data_view,
    code_snippet,
    cli_command,
    log_messages,   \* entries appended by the most recent event
    is_loading,     \* TFA_GUI._is_loading
    nevents,        \* user events so far in the session
    produced,       \* what the run that filled the cache slot produced (history)
    op              \* record of the most recent event (history)

tfa_vars == <<phase, widgets, cache, heap, raw_data, data, data_tabs,
          output_title, swarmpal_quicklook, data_view, code_snippet,
          cli_command, log_messages, is_loading, nevents, produced, op>>

VARIABLES
    dsecs,          \* the fields of the DsecsDataExplorer instance
    timers,         \* the live periodic callbacks of pn.state
    dop             \* history: what the last DSECS event did

dsecs_vars == <<dsecs, timers, dop>>

vars == <<tfa_vars, dsecs_vars>>

(***************************************************************************)
(* Config Builder                                                          *)
(***************************************************************************)
_using_cdf_input(s) ==
    IF s.data_tabs = NoTabs THEN FALSE ELSE s.data_tabs = 1

\* Path(filename).stem drops the extension; the regular expression drops
\* the date-and-version suffix.  Without an uploaded file file_in_mem has
\* no name and the attribute access raises.
_get_data_product(s) ==
    IF _using_cdf_input(s)
    THEN IF s.widgets["file-dropper"] = NoFile
         THEN "raise"
         ELSE s.widgets["file-dropper"].product
    ELSE CASE s.widgets["spacecraft"] = "Swarm-A" -> "SW_OPER_MAGA_LR_1B"
           [] s.widgets["spacecraft"] = "Swarm-B" -> "SW_OPER_MAGB_LR_1B"
           [] s.widgets["spacecraft"] = "Swarm-C" -> "SW_OPER_MAGC_LR_1B"
           [] OTHER -> "SW_OPER_MAGA_LR_1B"

_make_vires_data_params(s) ==
    <<[provider |-> "vires",
       collection |-> _get_data_product(s),
       measurements |-> <<"B_NEC">>,
       models |-> <<"Model='CHAOS-Core'+'CHAOS-Static'">>,
       auxiliaries |-> <<"QDLat", "MLT">>,
       start_time |-> s.widgets["start-end"][1],
       end_time |-> s.widgets["start-end"][2],
       pad_times |-> <<"03:00:00", "03:00:00">>,
       server_url |-> "https://vires.services/ows"]>>

_make_cdf_data_params(s) ==
    <<[provider |-> "file",
       filename |-> s.widgets["file-dropper"].tmp,
       filetype |-> "cdf",
       dataset |-> _get_data_product(s)]>>

_make_data_params(s) ==
    IF _using_cdf_input(s)
    THEN _make_cdf_data_params(s)
    ELSE _make_vires_data_params(s)

\* fault variant of ProcessParams: the filter step is listed before the
\* cleaning step
ProcessParams_swapped(product, w) ==
    <<[process_name |-> "TFA_Preprocess",
       dataset |-> product,
       active_variable |-> "B_NEC",
       active_component |-> w["preprocess-active-component"],
       sampling_rate |-> w["preprocess-sampling-rate"],
       remove_model |-> FALSE],
      [process_name |-> "TFA_Filter",
       cutoff_frequency |-> w["filter-cutoff"]],
      [process_name |-> "TFA_Clean",
       window_size |-> w["clean-window-size"],
       method |-> w["clean-method"],
       multiplier |-> w["clean-multiplier"]],
      [process_name |-> "TFA_Wavelet",
       min_frequency |-> w["wavelet-min-frequency"],
       max_frequency |-> w["wavelet-max-frequency"],
       dj |-> w["wavelet-dj"]]>>

ProcessParams(product, w) ==
    <<[process_name |-> "TFA_Preprocess",
       dataset |-> product,
       active_variable |-> "B_NEC",
       active_component |-> w["preprocess-active-component"],
       sampling_rate |-> w["preprocess-sampling-rate"],
       remove_model |-> FALSE],
      [process_name |-> "TFA_Clean",
       window_size |-> w["clean-window-size"],
       method |-> w["clean-method"],
       multiplier |-> w["clean-multiplier"]],
      [process_name |-> "TFA_Filter",
       cutoff_frequency |-> w["filter-cutoff"]],
      [process_name |-> "TFA_Wavelet",
       min_frequency |-> w["wavelet-min-frequency"],
       max_frequency |-> w["wavelet-max-frequency"],
       dj |-> w["wavelet-dj"]]>>

\* the configuration, or ConfigError when building it raises
make_config(s) ==
    IF _get_data_product(s) = "raise"
    THEN ConfigError
    ELSE [kind |-> "config",
          data_params |-> _make_data_params(s),
          process_params |-> ProcessParams(_get_data_product(s), s.widgets)]

(***************************************************************************)
(* Collaborators                                                           *)
(***************************************************************************)
\* the places where a collaborator call of one event can raise; k is the
\* index of the processing step that raises
FailPoints ==
    {[at |-> a, k |-> 0] :
        a \in {"none", "empty", "fetch", "irepr", "icode",
               "acli", "acode", "arepr", "aplot"}}
    \cup {[at |-> a, k |-> k] : a \in {"iproc", "aproc"}, k \in 1..4}

AnalysisFailPoints ==
    {f \in FailPoints : f.at \in {"none", "aproc", "acli", "acode", "arepr", "aplot"}}

PrecacheFailPoints ==
    {f \in FailPoints : f.at \in {"none", "empty", "fetch", "iproc", "irepr", "aplot"}}

\* swarmpal.fetch_data: a fresh dataset determined by the data parameters
FetchResult(config, fp) ==
    [kind |-> "dataset", src |-> config.data_params, applied |-> <<>>,
     empty |-> (fp.at = "empty")]

\* swarmpal.apply_processes: applies the steps left to right, in place, to
\* the object `id`; a step that raises leaves the earlier steps applied
apply_processes(s, id, process_params, at) ==
    LET n == IF s.fp.at = at THEN s.fp.k - 1 ELSE Len(process_params)
        done == SubSeq(process_params, 1, n)
    IN [s EXCEPT !.heap[id].applied = @ \o done,
                 !.nproc = @ + 1,
                 !.dark = @ \/ ~s.is_loading,
                 !.ctl = IF s.fp.at = at THEN "raise" ELSE "run"]

_repr_html_(content) == [kind |-> "html", of |-> content]

quicklook(content, tlims) == [kind |-> "fig", of |-> content, tlims |-> tlims]

\* copy.deepcopy: a new object with the content of `id`
deepcopy(s, id, new) == [s EXCEPT !.heap[new] = s.heap[id]]

\* the identities referenced by the cache entry
CacheRefs(c) == IF c = NoCache THEN {} ELSE {c.raw_data, c.data}

\* an identity for a new object that is to be bound to `slot`
NewId(s, slot) ==
    LET used == CacheRefs(s.cache)
                \cup (IF slot = "raw_data" THEN {} ELSE {s.raw_data})
                \cup (IF slot = "data" THEN {} ELSE {s.data})
                \cup {s.l_raw, s.l_data}
    IN CHOOSE i \in Ids \ used : \A j \in Ids \ used : i <= j

(***************************************************************************)
(* Render Adapter: snippets                                                *)
(***************************************************************************)
\* replaces the temporary file name by the user's file name
replace_file_paths(s, config) ==
    IF ~_using_cdf_input(s)
    THEN config
    ELSE [config EXCEPT !.data_params[1].filename =
              IF @ = s.widgets["file-dropper"].tmp
              THEN s.widgets["file-dropper"].name ELSE @]

get_vires_code(s) ==
    IF make_config(s) = ConfigError THEN ConfigError
    ELSE [kind |-> "python", config |-> replace_file_paths(s, make_config(s))]

get_cli(s) ==
    IF make_config(s) = ConfigError THEN ConfigError
    ELSE [kind |-> "cli", config |-> replace_file_paths(s, make_config(s))]

(***************************************************************************)
(* TFA_GUI helpers                                                         *)
(***************************************************************************)
set_loading(s, loading) == [s EXCEPT !.is_loading = loading]

log(s, message, level) ==
    [s EXCEPT !.log_messages = Append(@, [level |-> level, message |-> message])]

\* control state of the caller after a call
AfterCall(s) == [s EXCEPT !.ctl = IF @ = "raise" THEN "raise" ELSE "run"]

(***************************************************************************)
(* TFA_GUI.update_analysis                                                 *)
(***************************************************************************)
UA_config(s) ==
    IF s.ctl # "run" THEN s
    ELSE IF make_config(s) = ConfigError
         THEN [s EXCEPT !.ctl = "raise"]
         ELSE [s EXCEPT !.config = make_config(s)]

\* fault variant of UA_copy: a dataset processed before is processed again
\* instead of a fresh copy of the raw dataset
UA_copy_again(s) ==
    IF s.ctl # "run" THEN s
    ELSE LET new == NewId(s, "data")
             from == IF s.data # NoId THEN s.data ELSE s.raw_data
         IN [deepcopy(s, from, new) EXCEPT !.data = new]

\* fault variant of UA_copy: the chain is applied to the raw dataset itself
UA_copy_alias(s) ==
    IF s.ctl # "run" THEN s
    ELSE [s EXCEPT !.data = s.raw_data]

\* fault variant of UA_copy: the dataset is fetched again instead of copied
UA_copy_refetch(s) ==
    IF s.ctl # "run" THEN s
    ELSE LET new == NewId(s, "data")
         IN [s EXCEPT !.nfetch = @ + 1,
                      !.dark = @ \/ ~s.is_loading,
                      !.heap[new] = FetchResult(s.config, s.fp),
                      !.data = new]

UA_copy(s) ==
    IF s.ctl # "run" THEN s
    ELSE LET new == NewId(s, "data")
         IN [deepcopy(s, s.raw_data, new) EXCEPT !.data = new]

UA_apply(s) ==
    IF s.ctl # "run" THEN s
    ELSE apply_processes(s, s.data, s.config.process_params, "aproc")

UA_title(s, title) ==
    IF s.ctl # "run" THEN s
    ELSE [s EXCEPT !.output_title = Text(title)]

UA_cli(s) ==
    IF s.ctl # "run" THEN s
    ELSE IF s.fp.at = "acli" \/ get_cli(s) = ConfigError
         THEN [s EXCEPT !.ctl = "raise"]
         ELSE [s EXCEPT !.cli_command = get_cli(s)]

UA_code(s) ==
    IF s.ctl # "run" THEN s
    ELSE IF s.fp.at = "acode" \/ get_vires_code(s) = ConfigError
         THEN [s EXCEPT !.ctl = "raise"]
         ELSE [s EXCEPT !.code_snippet = get_vires_code(s)]

\* "if not self.data: return"
UA_empty(s) ==
    IF s.ctl # "run" THEN s
    ELSE IF s.heap[s.data].empty THEN [s EXCEPT !.ctl = "return"] ELSE s

UA_view(s) ==
    IF s.ctl # "run" THEN s
    ELSE IF s.fp.at = "arepr"
         THEN [s EXCEPT !.ctl = "raise", !.viewfail = TRUE]
         ELSE [s EXCEPT !.data_view = _repr_html_(s.heap[s.data])]

UA_cdf(s) ==
    IF s.ctl # "run" THEN s
    ELSE IF _using_cdf_input(s)
         THEN [log(s, "Analysis complete (CDF mode)", "success")
                  EXCEPT !.ctl = "return"]
         ELSE s

UA_plot(s) ==
    IF s.ctl # "run" THEN s
    ELSE LET s1 == log(s, "Generating quicklook plot...", "info")
         IN IF s.fp.at = "aplot"
            THEN [s1 EXCEPT !.ctl = "raise"]
            ELSE log([s1 EXCEPT !.swarmpal_quicklook =
                         quicklook(s.heap[s.data], s.widgets["start-end"])],
                     "Analysis complete", "success")

UA_try(s, title) ==
    UA_plot(UA_cdf(UA_view(UA_empty(UA_code(UA_cli(UA_title(
        UA_apply(UA_copy(UA_config(
            log(set_loading(s, TRUE),
                "Running analysis with current parameters...", "info")))),
        title)))))))

UA_except(s) ==
    IF s.ctl = "raise"
    THEN log(log(s, "Error during analysis", "error"), "traceback", "error")
    ELSE s

\* fault variant of update_analysis: the check for missing raw data is
\* absent, so that copying and processing are attempted on None
update_analysis_noguard(s, title) ==
    LET s0 == [s EXCEPT !.ncalls = @ + 1]
        s1 == log(set_loading(s0, TRUE),
                  "Running analysis with current parameters...", "info")
    IN IF s0.raw_data = NoId
       THEN set_loading(UA_except([s1 EXCEPT !.data = NoId, !.nproc = @ + 1,
                                             !.ctl = "raise"]), FALSE)
       ELSE set_loading(UA_except(UA_try(s0, title)), FALSE)

update_analysis(s, title) ==
    LET s0 == [s EXCEPT !.ncalls = @ + 1]
    IN IF s0.raw_data = NoId
       THEN [log([s0 EXCEPT !.output_title = Text("Please fetch data first")],
                 "No data available for analysis", "warning")
                EXCEPT !.ctl = "return", !.nodata = TRUE]
       ELSE set_loading(UA_except(UA_try(s0, title)), FALSE)

(***************************************************************************)
(* TFA_GUI.update_input_data                                               *)
(***************************************************************************)
UI_config(s) ==
    IF s.ctl # "run" THEN s
    ELSE IF make_config(s) = ConfigError
         THEN [s EXCEPT !.ctl = "raise"]
         ELSE [s EXCEPT !.config = make_config(s)]

UI_fetch(s) ==
    IF s.ctl # "run" THEN s
    ELSE IF s.fp.at = "fetch"
         THEN [s EXCEPT !.nfetch = @ + 1, !.ctl = "raise",
                        !.dark = @ \/ ~s.is_loading]
         ELSE LET new == NewId(s, "raw_data")
              IN [s EXCEPT !.nfetch = @ + 1,
                           !.dark = @ \/ ~s.is_loading,
                           !.heap[new] = FetchResult(s.config, s.fp),
                           !.raw_data = new]

UI_copy(s) ==
    IF s.ctl # "run" THEN s
    ELSE LET new == NewId(s, "data")
         IN [deepcopy(s, s.raw_data, new) EXCEPT !.data = new]

UI_apply(s) ==
    IF s.ctl # "run" THEN s
    ELSE apply_processes(log(s, "Applying processes...", "info"),
                         s.data, s.config.process_params, "iproc")

UI_view(s) ==
    IF s.ctl # "run" THEN s
    ELSE IF s.fp.at = "irepr"
         THEN [s EXCEPT !.ctl = "raise", !.viewfail = TRUE]
         ELSE [s EXCEPT !.data_view = _repr_html_(s.heap[s.data])]

UI_code(s) ==
    IF s.ctl # "run" THEN s
    ELSE IF s.fp.at = "icode" \/ get_vires_code(s) = ConfigError
         THEN [s EXCEPT !.ctl = "raise"]
         ELSE log([s EXCEPT !.code_snippet = get_vires_code(s)],
                  "Data fetched and processed successfully", "success")

UI_try(s) ==
    UI_code(UI_view(UI_apply(UI_copy(UI_fetch(UI_config(
        log(set_loading(s, TRUE), "Fetching input data...", "info")))))))

UI_except(s) ==
    IF s.ctl = "raise"
    THEN log(log(s, "Error fetching data", "error"), "traceback", "error")
    ELSE s

\* fault variant of update_input_data: the indicator is switched off only
\* when the try block completes
update_input_data_nofinally(s) ==
    IF _using_cdf_input(s) /\ s.widgets["file-dropper"] = NoFile
    THEN [s EXCEPT !.ctl = "return", !.skipped = TRUE]
    ELSE LET s0 == UI_except(UI_try(s))
             s1 == IF s0.ctl = "raise" THEN s0 ELSE set_loading(s0, FALSE)
         IN IF s1.ctl = "raise"
            THEN s1
            ELSE update_analysis(s1, DefaultTitle)

update_input_data(s) ==
    IF _using_cdf_input(s) /\ s.widgets["file-dropper"] = NoFile
    THEN [s EXCEPT !.ctl = "return", !.skipped = TRUE]
    ELSE LET s1 == set_loading(UI_except(UI_try(s)), FALSE)
         IN IF s1.ctl = "raise"
            THEN s1
            ELSE update_analysis(s1, DefaultTitle)

(***************************************************************************)
(* Start of life: the cache and the construction of TFA_GUI                *)
(***************************************************************************)
CacheEntry(raw, dat, figure, view, code, cli) ==
    [kind |-> "entry", raw_data |-> raw, data |-> dat, figure |-> figure,
     data_view |-> view, code_snippet |-> code, cli_command |-> cli]

\* fault variant of _load_initial_data: the raw dataset is stored under
\* both dataset keys of the cache entry
_load_initial_data_rawtwice(s) ==
    LET s1 == AfterCall(update_input_data(log(s, "Starting TFA dashboard...", "info")))
    IN IF s1.ctl = "raise"
       THEN [log(log(s1, "Failed to load initial data", "error"),
                 "traceback", "error") EXCEPT !.ctl = "run", !.caught = TRUE]
       ELSE log([s1 EXCEPT !.stored = TRUE, !.cache =
                    CacheEntry(s1.raw_data, s1.raw_data, s1.swarmpal_quicklook,
                               s1.data_view, s1.code_snippet, s1.cli_command)],
                "Dashboard initialized successfully", "success")

_load_initial_data(s) ==
    LET s1 == AfterCall(update_input_data(log(s, "Starting TFA dashboard...", "info")))
    IN IF s1.ctl = "raise"
       THEN [log(log(s1, "Failed to load initial data", "error"),
                 "traceback", "error") EXCEPT !.ctl = "run", !.caught = TRUE]
       ELSE log([s1 EXCEPT !.stored = TRUE, !.cache =
                    CacheEntry(s1.raw_data, s1.data, s1.swarmpal_quicklook,
                               s1.data_view, s1.code_snippet, s1.cli_command)],
                "Dashboard initialized successfully", "success")

\* fault variant of LoadFromCache: the processed handle is restored from
\* the raw entry
LoadFromCache_rawasdata(s) ==
    log([log(s, "Loading from cache...", "info") EXCEPT
            !.raw_data = s.cache.raw_data,
            !.data = s.cache.raw_data,
            !.swarmpal_quicklook = s.cache.figure,
            !.data_view = s.cache.data_view,
            !.code_snippet = s.cache.code_snippet,
            !.cli_command = s.cache.cli_command,
            !.output_title = Text(DefaultTitle)],
        "Loaded from cache successfully", "success")

\* the restore branch of __init__
LoadFromCache(s) ==
    log([log(s, "Loading from cache...", "info") EXCEPT
            !.raw_data = s.cache.raw_data,
            !.data = s.cache.data,
            !.swarmpal_quicklook = s.cache.figure,
            !.data_view = s.cache.data_view,
            !.code_snippet = s.cache.code_snippet,
            !.cli_command = s.cache.cli_command,
            !.output_title = Text(DefaultTitle)],
        "Loaded from cache successfully", "success")

\* fault variant of TFA_GUI_init: the cache is not consulted
TFA_GUI_init_nocache(s) ==
    _load_initial_data(
        [s EXCEPT !.output_title = NoArt,
                  !.swarmpal_quicklook = NoArt,
                  !.data_view = NoArt,
                  !.code_snippet = NoArt,
                  !.cli_command = NoArt,
                  !.is_loading = FALSE,
                  !.data = NoId,
                  !.raw_data = NoId,
                  !.data_tabs = NoTabs])

\* TFA_GUI.__init__ on the fresh module-level widgets
TFA_GUI_init(s) ==
    LET s0 == [s EXCEPT !.output_title = NoArt,
                        !.swarmpal_quicklook = NoArt,
                        !.data_view = NoArt,
                        !.code_snippet = NoArt,
                        !.cli_command = NoArt,
                        !.is_loading = FALSE,
                        !.data = NoId,
                        !.raw_data = NoId,
                        !.data_tabs = NoTabs]
    IN IF s0.cache # NoCache
       THEN LoadFromCache(s0)
       ELSE _load_initial_data(s0)

\* the literal default configuration of _populate_tfa_cache
PrecacheConfig ==
    [kind |-> "config",
     data_params |->
        <<[provider |-> "vires",
           collection |-> "SW_OPER_MAGA_LR_1B",
           measurements |-> <<"B_NEC">>,
           models |-> <<"Model='CHAOS-Core'+'CHAOS-Static'">>,
           auxiliaries |-> <<"QDLat", "MLT">>,
           start_time |-> "2026-01-01T00:00:00",
           end_time |-> "2026-01-02T00:00:00",
           pad_times |-> <<"03:00:00", "03:00:00">>,
           server_url |-> "https://vires.services/ows"]>>,
     process_params |->
        <<[process_name |-> "TFA_Preprocess",
           dataset |-> "SW_OPER_MAGA_LR_1B",
           active_variable |-> "B_NEC",
           active_component |-> 2,
           sampling_rate |-> 1000,
           remove_model |-> FALSE],
          [process_name |-> "TFA_Clean",
           window_size |-> 300,
           method |-> "iqr",
           multiplier |-> 500],
          [process_name |-> "TFA_Filter",
           cutoff_frequency |-> 20],
          [process_name |-> "TFA_Wavelet",
           min_frequency |-> 20,
           max_frequency |-> 100,
           dj |-> 100]>>]

PC_fetch(s) ==
    IF s.fp.at = "fetch"
    THEN [s EXCEPT !.nfetch = @ + 1, !.ctl = "raise",
                   !.dark = @ \/ ~s.is_loading]
    ELSE LET new == NewId(s, "local")
         IN [s EXCEPT !.nfetch = @ + 1,
                      !.dark = @ \/ ~s.is_loading,
                      !.heap[new] = FetchResult(PrecacheConfig, s.fp),
                      !.l_raw = new]

PC_copy(s) ==
    IF s.ctl # "run" THEN s
    ELSE LET new == NewId(s, "local")
         IN [deepcopy(s, s.l_raw, new) EXCEPT !.l_data = new]

PC_apply(s) ==
    IF s.ctl # "run" THEN s
    ELSE apply_processes(s, s.l_data, PrecacheConfig.process_params, "iproc")

PC_store(s) ==
    IF s.ctl # "run" THEN s
    ELSE IF s.fp.at \in {"aplot", "irepr"}
         THEN [s EXCEPT !.ctl = "raise"]
         ELSE [s EXCEPT !.stored = TRUE, !.cache =
                  CacheEntry(s.l_raw, s.l_data,
                      quicklook(s.heap[s.l_data],
                                <<PrecacheConfig.data_params[1].start_time,
                                  PrecacheConfig.data_params[1].end_time>>),
                      _repr_html_(s.heap[s.l_data]),
                      Text("# Code snippet will be generated on first use"),
                      Text("# CLI command will be generated on first use"))]

\* every exception is caught and printed
_populate_tfa_cache(s) ==
    IF s.cache # NoCache
    THEN s
    ELSE LET s1 == PC_store(PC_apply(PC_copy(PC_fetch(s))))
         IN [s1 EXCEPT !.ctl = "run", !.caught = (s1.ctl = "raise")]

(***************************************************************************)
(* Events                                                                  *)
(***************************************************************************)
\* the state an event starts in, with the event's locals and counters
Start(fp) ==
    [widgets |-> widgets, cache |-> cache, heap |-> heap,
     raw_data |-> raw_data, data |-> data, data_tabs |-> data_tabs,
     output_title |-> output_title, swarmpal_quicklook |-> swarmpal_quicklook,
     data_view |-> data_view, code_snippet |-> code_snippet,
     cli_command |-> cli_command, log_messages |-> <<>>,
     is_loading |-> is_loading,
     ctl |-> "run", fp |-> fp, config |-> NoCfg, l_raw |-> NoId, l_data |-> NoId,
     nfetch |-> 0, nproc |-> 0, ncalls |-> 0,
     nodata |-> FALSE, skipped |-> FALSE, caught |-> FALSE, stored |-> FALSE,
     viewfail |-> FALSE, dark |-> FALSE]

\* objects no reference reaches are collected
Collect(s) ==
    [i \in Ids |->
        IF i \in CacheRefs(s.cache) \cup {s.raw_data, s.data}
        THEN s.heap[i] ELSE NoObj]

Outcome(s) ==
    [raised |-> (s.ctl = "raise"), caught |-> s.caught, nodata |-> s.nodata,
     skipped |-> s.skipped, nfetch |-> s.nfetch, nproc |-> s.nproc,
     ncalls |-> s.ncalls, hadcache |-> (cache # NoCache),
     logged |-> (s.log_messages # <<>>), viewfail |-> s.viewfail,
     dark |-> s.dark]

\* the contents and artifacts a cache entry holds when it is stored
Produced(s) ==
    [raw |-> s.heap[s.cache.raw_data], data |-> s.heap[s.cache.data],
     figure |-> s.cache.figure, data_view |-> s.cache.data_view,
     code_snippet |-> s.cache.code_snippet, cli_command |-> s.cache.cli_command]

\* the event repeats the handler of the previous event, which completed
Again(name) ==
    /\ name = op.name
    /\ ~op.raised /\ ~op.nodata /\ ~op.skipped

\* the event ends in state s
Commit(s, name, w) ==
    /\ widgets' = s.widgets
    /\ cache' = s.cache
    /\ heap' = Collect(s)
    /\ raw_data' = s.raw_data
    /\ data' = s.data
    /\ data_tabs' = s.data_tabs
    /\ output_title' = s.output_title
    /\ swarmpal_quicklook' = s.swarmpal_quicklook
    /\ data_view' = s.data_view
    /\ code_snippet' = s.code_snippet
    /\ cli_command' = s.cli_command
    /\ log_messages' = s.log_messages
    /\ is_loading' = s.is_loading
    /\ produced' = IF s.stored THEN Produced(s) ELSE produced
    /\ op' = [name |-> name, widget |-> w, again |-> Again(name)] @@ Outcome(s)
    /\ UNCHANGED dsecs_vars

Changed(w) == {x \in ProcessWidgets : w[x] # DefaultWidgets[x]}

\* fault variant of Watchers: one parameter widget is not watched
Watchers_missing(w) ==
    IF w \in ProcessWidgets \ {"wavelet-dj"} THEN <<"update_analysis">> ELSE <<>>

\* the handlers registered for a change of a widget's value
Watchers(w) ==
    IF w \in ProcessWidgets THEN <<"update_analysis">> ELSE <<>>

RECURSIVE RunWatchers(_, _)
RunWatchers(s, hs) ==
    IF hs = <<>> \/ s.ctl = "raise" THEN s
    ELSE RunWatchers(AfterCall(update_analysis(s, DefaultTitle)), Tail(hs))

\* module level: _populate_tfa_cache()
Precache ==
    /\ phase = "boot"
    /\ \E fp \in PrecacheFailPoints :
          Commit(_populate_tfa_cache(Start(fp)), "_populate_tfa_cache", "")
    /\ phase' = "precached"
    /\ UNCHANGED nevents

\* module level: tfa_gui = TFA_GUI(widgets)
Construct ==
    /\ phase = "precached"
    /\ \E fp \in FailPoints :
          Commit(TFA_GUI_init(Start(fp)), "__init__", "")
    /\ phase' = "constructed"
    /\ UNCHANGED nevents

\* module level: the template reads tfa_gui.sidebar, which creates the tabs
Serve ==
    /\ phase = "constructed"
    /\ Commit([Start([at |-> "none", k |-> 0]) EXCEPT !.data_tabs = 0], "sidebar", "")
    /\ phase' = "serving"
    /\ UNCHANGED nevents

ClickFetch ==
    /\ phase = "serving"
    /\ nevents < MaxEvents
    /\ \E fp \in FailPoints :
          Commit(update_input_data(Start(fp)), "click_fetch", "")
    /\ nevents' = nevents + 1
    /\ UNCHANGED phase

ClickRunAnalysis ==
    /\ phase = "serving"
    /\ nevents < MaxEvents
    /\ \E fp \in AnalysisFailPoints :
          Commit(update_analysis(Start(fp), DefaultTitle), "click_run_analysis", "")
    /\ nevents' = nevents + 1
    /\ UNCHANGED phase

\* the user gives widget w the new value v; the widget's watchers run
ChangeWidget ==
    /\ phase = "serving"
    /\ nevents < MaxEvents
    /\ \E w \in WidgetNames : \E v \in WidgetOptions(w) \ {widgets[w]} :
       \E fp \in AnalysisFailPoints :
          /\ Cardinality(Changed([widgets EXCEPT ![w] = v])) <= MaxChanged
          /\ Watchers(w) = <<>> => fp.at = "none"
          /\ Commit(RunWatchers([Start(fp) EXCEPT !.widgets[w] = v], Watchers(w)),
                    "change_widget", w)
    /\ nevents' = nevents + 1
    /\ UNCHANGED phase

SelectTab ==
    /\ phase = "serving"
    /\ nevents < MaxEvents
    /\ \E t \in {0, 1} \ {data_tabs} :
          Commit([Start([at |-> "none", k |-> 0]) EXCEPT !.data_tabs = t], "select_tab", "")
    /\ nevents' = nevents + 1
    /\ UNCHANGED phase

\* the state before the module-level code of a session runs
Fresh(c, h) ==
    /\ phase' = "boot"
    /\ widgets' = DefaultWidgets
    /\ cache' = c
    /\ heap' = h
    /\ raw_data' = NoId
    /\ data' = NoId
    /\ data_tabs' = NoTabs
    /\ output_title' = NoArt
    /\ swarmpal_quicklook' = NoArt
    /\ data_view' = NoArt
    /\ code_snippet' = NoArt
    /\ cli_command' = NoArt
    /\ log_messages' = <<>>
    /\ is_loading' = FALSE
    /\ nevents' = 0
    /\ UNCHANGED dsecs_vars

\* a further session of the same server process runs the module again
NewSession ==
    /\ phase = "serving"
    /\ Fresh(cache, [i \in Ids |-> IF i \in CacheRefs(cache) THEN heap[i] ELSE NoObj])
    /\ UNCHANGED produced
    /\ op' = [name |-> "new_session", widget |-> "", again |-> FALSE]
             @@ Outcome(Start([at |-> "none", k |-> 0]))

(***************************************************************************)
(* DSECS dashboard: values                                                 *)
(***************************************************************************)
\* self.data = None
NoData == [type |-> "NoneType"]
\* the file dropper holds no file
NoUpload == [open |-> "none"]
\* self._animation_callback = None
NoCallback == 0
\* the Matplotlib pane without an object
NoFigure == [kind |-> "none"]
\* the "Processing..." figure
_pending_matplotlib_figure == [kind |-> "pending"]
\* the figure of frame k
Figure(k) == [kind |-> "fig", frame |-> k]
\* the frame keys a plot may use
Keys == 0..MaxKey

Range(seq) == {seq[i] : i \in 1..Len(seq)}

\* Python's min() and max() of a list of frame keys
min(frames) == CHOOSE k \in Range(frames) : \A j \in Range(frames) : k <= j
max(frames) == CHOOSE k \in Range(frames) : \A j \in Range(frames) : k >= j

\* frames.index(k), counted from 1
index(frames, k) == CHOOSE i \in 1..Len(frames) : frames[i] = k

\* the uploaded files: what open_datatree and the dataset's methods do
\* (nothing but str() is called on a dataset whose str() raises)
Files ==
    {[open |-> "raise"],
     [open |-> "ok", html_ok |-> FALSE, str_ok |-> FALSE, groups |-> "B_NEC"]}
    \cup {[open |-> "ok", html_ok |-> h, str_ok |-> TRUE, groups |-> g] :
            h \in BOOLEAN, g \in {"DSECS_output", "B_NEC"}}

\* open_datatree(file_path, engine='netcdf4')
open_datatree(f) ==
    [type |-> "DataTree", html_ok |-> f.html_ok, str_ok |-> f.str_ok,
     groups |-> f.groups]

\* str(self.data): the dump of a DataTree names the type and lists the groups
str(d) == [type |-> d.type, groups |-> d.groups]

\* the dictionaries dsecs_plotting.quicklook may return, as the sequence of
\* their keys in insertion order: any set of keys, inserted in ascending or
\* in descending order
KeyOrders ==
    {q \in UNION {[1..n -> Keys] : n \in 0..(MaxKey + 1)} :
        \/ \A i, j \in 1..Len(q) : i < j => q[i] < q[j]
        \/ \A i, j \in 1..Len(q) : i < j => q[i] > q[j]}

\* the outcomes of dsecs_plotting.quicklook: it raises or returns figures
QuicklookResults == {<<-1>>} \cup KeyOrders

(***************************************************************************)
(* DSECS dashboard: handlers                                               *)
(***************************************************************************)
\* DsecsDataExplorer.__init__
DsecsDataExplorer_init ==
    [swarmpal_animated |-> NoFigure,
     code_snippet |-> NoArt,
     data_view |-> NoArt,
     status_info |-> "Ready to fetch data...",
     frame_slider |-> [start |-> 0, end |-> 0, value |-> 0, disabled |-> TRUE],
     play_button |-> [name |-> "Play", disabled |-> TRUE],
     animation_figures |-> [keys |-> <<>>],
     animation_playing |-> FALSE,
     _animation_callback |-> NoCallback,
     data |-> NoData,
     preprocessed |-> FALSE,
     analyzed |-> FALSE]

\* fault variant of _update_data_view: no fallback when the HTML
\* representation raises
_update_data_view_nofallback(s) ==
    IF s.data # NoData
    THEN IF s.data.html_ok
         THEN [s EXCEPT !.data_view = [kind |-> "html", of |-> s.data]]
         ELSE s
    ELSE [s EXCEPT !.data_view = Text("<p>No data loaded</p>")]

_update_data_view(s) ==
    IF s.data # NoData
    THEN IF s.data.html_ok
         THEN [s EXCEPT !.data_view = [kind |-> "html", of |-> s.data]]
         ELSE IF s.data.str_ok
              THEN [s EXCEPT !.data_view = [kind |-> "pre", text |-> str(s.data)]]
              ELSE [s EXCEPT !.data_view = [kind |-> "error_info",
                                            type |-> s.data.type,
                                            attributes |-> DOMAIN s.data]]
    ELSE [s EXCEPT !.data_view = Text("<p>No data loaded</p>")]

_disable_animation_controls(s) ==
    [s EXCEPT !.frame_slider.disabled = TRUE,
              !.play_button.disabled = TRUE,
              !.swarmpal_animated = _pending_matplotlib_figure]

\* the watcher of the slider's value
_update_animation_frame(s, frame) ==
    IF frame \in Range(s.animation_figures.keys)
    THEN [s EXCEPT !.swarmpal_animated = Figure(frame)]
    ELSE s

\* an assignment to frame_slider.value: the watcher runs when the value changes
SetSliderValue(s, v) ==
    IF v = s.frame_slider.value THEN s
    ELSE _update_animation_frame([s EXCEPT !.frame_slider.value = v], v)

_setup_animated_quicklook(s, figures_dict) ==
    LET s1 == [s EXCEPT !.animation_figures = figures_dict]
        frames == figures_dict.keys
    IN IF frames # <<>>
       THEN LET s2 == [s1 EXCEPT !.frame_slider.start = min(frames),
                                 !.frame_slider.end = max(frames),
                                 !.frame_slider.disabled = FALSE]
                s3 == SetSliderValue(s2, min(frames))
            IN [s3 EXCEPT !.play_button.disabled = FALSE,
                          !.swarmpal_animated = Figure(min(frames))]
       ELSE _disable_animation_controls(s1)

\* q is what dsecs_plotting.quicklook does with the dataset
_update_quicklook(s, q) ==
    IF s.data # NoData /\ s.analyzed
    THEN IF q = <<-1>>
         THEN [s EXCEPT !.status_info = "Plotting error"]
         ELSE IF q # <<>>
              THEN _setup_animated_quicklook(s, [keys |-> q])
              ELSE [s EXCEPT !.status_info = "No figures generated from DSECS quicklook"]
    ELSE s

_update_code_snippet(s) ==
    [s EXCEPT !.code_snippet = [kind |-> "code", preprocessed |-> s.preprocessed,
                                analyzed |-> s.analyzed]]

\* f is the value of the file dropper
load_netcdf_data(s, f, q) ==
    IF f = NoUpload
    THEN [s EXCEPT !.status_info = "Please upload a NetCDF file first"]
    ELSE IF f.open = "raise"
    THEN [s EXCEPT !.status_info = "Failed to load file"]
    ELSE LET s1 == [s EXCEPT !.data = open_datatree(f)]
         IN IF ~s1.data.str_ok
            THEN [s1 EXCEPT !.status_info = "Failed to load file"]
            ELSE IF s1.data.groups = "DSECS_output"
            THEN _update_code_snippet(_update_quicklook(_update_data_view(
                    [s1 EXCEPT !.preprocessed = TRUE,
                               !.analyzed = TRUE,
                               !.status_info = "Pre-computed DSECS results loaded successfully!"]),
                    q))
            ELSE _update_code_snippet(_update_data_view(
                    [s1 EXCEPT !.preprocessed = FALSE,
                               !.analyzed = FALSE,
                               !.status_info = "Raw data loaded from NetCDF"]))

\* pn.state.add_periodic_callback(advance_frame, period=1200); the callback
\* keeps the list of frames it was created with
add_periodic_callback(s, frames) ==
    LET used == {t.id : t \in s.timers} \cup {NoCallback}
        id == 1 + (CHOOSE i \in used : \A j \in used : i >= j)
    IN [s EXCEPT !.timers = @ \cup {[id |-> id, frames |-> frames]},
                 !._animation_callback = id]

_start_animation(s) ==
    LET frames == s.animation_figures.keys
    IN IF frames = <<>> THEN s ELSE add_periodic_callback(s, frames)

\* fault variant of _toggle_animation: pausing does not stop the callback
_toggle_animation_nostop(s) ==
    IF s.animation_playing
    THEN [s EXCEPT !.animation_playing = FALSE, !.play_button.name = "Play"]
    ELSE _start_animation([s EXCEPT !.animation_playing = TRUE,
                                    !.play_button.name = "Pause"])

_toggle_animation(s) ==
    IF s.animation_playing
    THEN LET s1 == [s EXCEPT !.animation_playing = FALSE, !.play_button.name = "Play"]
         IN IF s1._animation_callback # NoCallback
            THEN [s1 EXCEPT !.timers = {t \in @ : t.id # s1._animation_callback},
                            !._animation_callback = NoCallback]
            ELSE s1
    ELSE _start_animation([s EXCEPT !.animation_playing = TRUE,
                                    !.play_button.name = "Pause"])

\* the periodic callback created with the list `frames`
advance_frame(s, frames) ==
    IF ~s.animation_playing THEN s
    ELSE LET current_frame == s.frame_slider.value
             current_idx == IF current_frame \in Range(frames)
                            THEN index(frames, current_frame) ELSE 1
             next_frame == frames[(current_idx % Len(frames)) + 1]
         IN SetSliderValue(s, next_frame)

(***************************************************************************)
(* DSECS dashboard: the handlers that no button is connected to            *)
(***************************************************************************)
\* the outcomes of fetch_data: create_paldata raises, or returns a dataset
\* with the Swarm-A and Swarm-C collections (fetch_data itself takes str()
\* of the dataset, so a dataset whose str() raises counts as a raise)
FetchOutcomes ==
    {[fetch |-> "raise"]}
    \cup {[fetch |-> "ok", html_ok |-> h] : h \in BOOLEAN}

fetch_data(o) ==
    [type |-> "DataTree", html_ok |-> o.html_ok, str_ok |-> TRUE,
     groups |-> "MAGA_MAGC"]

update_input_data_dsecs(s, o) ==
    IF o.fetch = "raise"
    THEN [s EXCEPT !.status_info = "Data fetch failed"]
    ELSE _update_code_snippet(_update_data_view(
            [s EXCEPT !.status_info = "Fetched data from VirES",
                      !.data = fetch_data(o),
                      !.preprocessed = FALSE,
                      !.analyzed = FALSE]))

\* dsecs.processes.Preprocess applied to a dataset
Preprocess(d) == d

\* dsecs.processes.Analysis applied to a dataset: it adds the DSECS output
Analysis(d) == [d EXCEPT !.groups = "DSECS_output"]

\* whether the search of the group names may find a Swarm-A and a Swarm-C
\* dataset: certain for fetched data, open for the content of a file
FoundDatasets(d) ==
    IF d = NoData THEN {FALSE}
    ELSE IF d.groups = "MAGA_MAGC" THEN {TRUE} ELSE BOOLEAN

\* found: both datasets are found; ok: the process does not raise
run_preprocessing(s, found, ok) ==
    IF s.data = NoData
    THEN [s EXCEPT !.status_info = "Please fetch data first"]
    ELSE IF ~found
    THEN [s EXCEPT !.status_info = "Could not find both Swarm-A and Swarm-C datasets"]
    ELSE LET s1 == [s EXCEPT !.called = "Preprocess",
                             !.misuse = (s.data = NoData)]
         IN IF ~ok
            THEN [s1 EXCEPT !.status_info = "Preprocessing failed"]
            ELSE _update_code_snippet(_update_data_view(
                    [s1 EXCEPT !.data = Preprocess(s.data),
                               !.preprocessed = TRUE,
                               !.status_info = "Preprocessing completed"]))

\* the call of the Analysis process and what follows it in the try block
RA_try(s, ok, q) ==
    LET s1 == [s EXCEPT !.called = "Analysis",
                        !.misuse = (s.data = NoData \/ ~s.preprocessed)]
    IN IF ~ok
       THEN [s1 EXCEPT !.status_info = "Analysis failed"]
       ELSE _update_code_snippet(_update_quicklook(_update_data_view(
               [s1 EXCEPT !.data = Analysis(s.data),
                          !.analyzed = TRUE,
                          !.status_info = "DSECS analysis completed"]),
               q))

\* fault variant of run_analysis: the check of the preprocessed flag is
\* missing
run_analysis_noguard(s, ok, q) ==
    IF s.data = NoData
    THEN [s EXCEPT !.status_info = "Please fetch data first"]
    ELSE RA_try(s, ok, q)

\* ok: the process does not raise; q: what dsecs_plotting.quicklook does
run_analysis(s, ok, q) ==
    IF s.data = NoData
    THEN [s EXCEPT !.status_info = "Please fetch data first"]
    ELSE IF ~s.preprocessed
    THEN [s EXCEPT !.status_info = "Please run preprocessing first"]
    ELSE RA_try(s, ok, q)

(***************************************************************************)
(* DSECS dashboard: events                                                 *)
(***************************************************************************)
\* the state a DSECS handler starts in
DStart == dsecs @@ [timers |-> timers, called |-> "none", misuse |-> FALSE]

\* the handler ends in state s
DCommit(s, name) ==
    /\ dsecs' = [x \in DOMAIN dsecs |-> s[x]]
    /\ timers' = s.timers
    /\ dop' = [name |-> name, called |-> s.called, misuse |-> s.misuse]
    /\ UNCHANGED tfa_vars

\* loading f calls dsecs_plotting.quicklook
Plots(f) == f.open = "ok" /\ f.str_ok /\ f.groups = "DSECS_output"

\* the user clicks "Load NetCDF"
ClickLoadNetcdf ==
    \E f \in {NoUpload} \cup Files : \E q \in QuicklookResults :
        /\ ~Plots(f) => q = <<>>
        /\ DCommit(load_netcdf_data(DStart, f, q), "load_netcdf_data")

\* the user moves the frame slider to i
MoveFrameSlider ==
    /\ ~dsecs.frame_slider.disabled
    /\ \E i \in (dsecs.frame_slider.start..dsecs.frame_slider.end)
                \ {dsecs.frame_slider.value} :
          DCommit(SetSliderValue(DStart, i), "frame_slider")

\* the user clicks the play button
ClickPlay ==
    /\ ~dsecs.play_button.disabled
    /\ DCommit(_toggle_animation(DStart), "_toggle_animation")

\* a live periodic callback fires
Tick ==
    \E t \in timers :
        DCommit(advance_frame(DStart, t.frames), "advance_frame")

\* the operations of the instance that no button is connected to
CallUpdateInputData ==
    \E o \in FetchOutcomes :
        DCommit(update_input_data_dsecs(DStart, o), "update_input_data")

CallRunPreprocessing ==
    \E found \in FoundDatasets(dsecs.data) : \E ok \in BOOLEAN :
        /\ ~found => ok
        /\ DCommit(run_preprocessing(DStart, found, ok), "run_preprocessing")

CallRunAnalysis ==
    \E ok \in BOOLEAN : \E q \in QuicklookResults :
        /\ ~(dsecs.data # NoData /\ dsecs.preprocessed /\ ok) => q = <<>>
        /\ dsecs.data = NoData \/ ~dsecs.preprocessed => ok
        /\ DCommit(run_analysis(DStart, ok, q), "run_analysis")

DsecsInit ==
    /\ dsecs = DsecsDataExplorer_init
    /\ timers = {}
    /\ dop = [name |-> "__init__", called |-> "none", misuse |-> FALSE]

(***************************************************************************)
(* Specifications                                                          *)
(***************************************************************************)
Init ==
    /\ DsecsInit
    /\ phase = "boot"
    /\ widgets = DefaultWidgets
    /\ cache = NoCache
    /\ heap = [i \in Ids |-> NoObj]
    /\ raw_data = NoId
    /\ data = NoId
    /\ data_tabs = NoTabs
    /\ output_title = NoArt
    /\ swarmpal_quicklook = NoArt
    /\ data_view = NoArt
    /\ code_snippet = NoArt
    /\ cli_command = NoArt
    /\ log_messages = <<>>
    /\ is_loading = FALSE
    /\ nevents = 0
    /\ produced = NoArt
    /\ op = [name |-> "start", widget |-> "", raised |-> FALSE, caught |-> FALSE,
             nodata |-> FALSE, skipped |-> FALSE, nfetch |-> 0, nproc |-> 0,
             ncalls |-> 0, hadcache |-> FALSE, logged |-> FALSE,
             viewfail |-> FALSE, again |-> FALSE, dark |-> FALSE]

Next ==
    \/ Precache
    \/ Construct
    \/ Serve
    \/ ClickFetch
    \/ ClickRunAnalysis
    \/ ChangeWidget
    \/ SelectTab
    \/ NewSession

Spec == Init /\ [][Next]_vars

\* the DSECS dashboard
NextDSECS ==
    \/ ClickLoadNetcdf
    \/ MoveFrameSlider
    \/ ClickPlay
    \/ Tick

SpecDSECS == Init /\ [][NextDSECS]_vars

\* the data operations of the DSECS instance in any order: load, fetch,
\* preprocessing and analysis (the animation events change neither the
\* dataset nor the flags and call no process)
NextDSECSOps ==
    \/ ClickLoadNetcdf
    \/ CallUpdateInputData
    \/ CallRunPreprocessing
    \/ CallRunAnalysis

SpecDSECSOps == Init /\ [][NextDSECSOps]_vars

(***************************************************************************)
(* Properties                                                              *)
(***************************************************************************)
\* the input snapshot of the current state
Cur == [widgets |-> widgets, data_tabs |-> data_tabs]

\* the content of the dataset a handle refers to
Content(h, id) == IF id = NoId THEN NoObj ELSE h[id]

\* the result of applying a chain of steps to a copy of a dataset
Chain(content, process_params) ==
    [content EXCEPT !.applied = @ \o process_params]

AnalysisEvent(o) ==
    \/ o.name = "click_run_analysis"
    \/ o.name = "change_widget" /\ o.widget \in ProcessWidgets

UserEvent(o) ==
    o.name \in {"click_fetch", "click_run_analysis", "change_widget"}

\* the cache entry holds what the instance holds now
CacheHoldsCurrent ==
    /\ cache # NoCache
    /\ Content(heap, cache.raw_data) = Content(heap, raw_data)
    /\ Content(heap, cache.data) = Content(heap, data)
    /\ cache.figure = swarmpal_quicklook
    /\ cache.data_view = data_view
    /\ cache.code_snippet = code_snippet
    /\ cache.cli_command = cli_command

\* C1: a fetch-and-process that fails (in the fetch or in a later step)
\* leaves the raw handle, the processed handle and the cache entry as they
\* were before the operation, and surfaces an error.
C1_FailedFetchLeavesState ==
    [][(op'.name \in {"click_fetch", "__init__"} /\ (op'.raised \/ op'.caught))
        => /\ Content(heap', raw_data') = Content(heap, raw_data)
           /\ Content(heap', data') = Content(heap, data)
           /\ cache' = cache
           /\ op'.logged]_vars

\* C2: no failure escapes a user-triggered handler: the handler returns
\* normally after recording a status message or log entry.
C2_NoFailureEscapes ==
    UserEvent(op) => ~op.raised

DefaultDataParams ==
    make_config([widgets |-> DefaultWidgets, data_tabs |-> NoTabs]).data_params

\* C5: a construction with a cache entry performs no fetch and applies no
\* processing chain; a construction without one performs exactly one fetch,
\* with the default widget values, and ends with the slot populated with the
\* run's result if the run succeeded and absent if it failed.
C5_StartOfLife ==
    (op.name = "__init__")
        => IF op.hadcache
           THEN op.nfetch = 0 /\ op.nproc = 0
           ELSE /\ op.nfetch = 1
                /\ raw_data # NoId => heap[raw_data].src = DefaultDataParams
                /\ ~op.caught => CacheHoldsCurrent /\ cache.raw_data = raw_data
                                 /\ cache.data = data
                /\ op.caught => cache = NoCache

C5_Witness ==
    op.name = "__init__" /\ ~op.hadcache /\ ~op.caught /\ cache # NoCache

\* C6: update_analysis, from the run-analysis button or a parameter change,
\* performs no fetch call.
C6_ReprocessNeverFetches ==
    AnalysisEvent(op) => op.nfetch = 0

C6_Witness ==
    AnalysisEvent(op) /\ op.nproc = 1 /\ ~op.raised

\* C7: update_analysis invoked while raw_data is None ends in the no-data
\* outcome, applies no processing step and leaves the cache entry and the
\* processed handle unchanged.
C7_ReprocessWithoutRaw ==
    [][(AnalysisEvent(op') /\ raw_data = NoId)
        => /\ op'.nodata
           /\ op'.nproc = 0
           /\ cache' = cache
           /\ \A i \in CacheRefs(cache) : heap'[i] = heap[i]
           /\ data' = data
           /\ Content(heap', data') = Content(heap, data)]_vars

C7_Witness ==
    AnalysisEvent(op) /\ op.nodata /\ raw_data = NoId

\* C8: one value change of a processing-parameter widget runs
\* update_analysis exactly once and fetches nothing; when the run succeeds
\* the processed dataset is the full chain of the new parameter values
\* applied to a fresh copy of the raw dataset.
C8_ParameterChangeReprocessesOnce ==
    (op.name = "change_widget" /\ op.widget \in ProcessWidgets)
        => /\ op.ncalls = 1
           /\ op.nfetch = 0
           /\ (~op.raised /\ ~op.nodata)
                => /\ op.nproc = 1
                   /\ data # raw_data
                   /\ heap[data] = Chain(heap[raw_data],
                                         make_config(Cur).process_params)

C8_Witness ==
    /\ op.name = "change_widget" /\ op.widget = "wavelet-dj"
    /\ ~op.raised /\ ~op.nodata
    /\ widgets["wavelet-dj"] # DefaultWidgets["wavelet-dj"]
    /\ heap[data].applied # <<>>

\* C9: whenever no handler is running and raw data is present, the
\* processed dataset is the chain built from the current widget values
\* applied to a copy of the raw dataset.
C9_ProcessedDerivableFromRaw ==
    (phase = "serving" /\ raw_data # NoId)
        => /\ make_config(Cur) # ConfigError
           /\ data # NoId
           /\ heap[data] = Chain(heap[raw_data], make_config(Cur).process_params)

\* C10: processing is applied to a deep copy, never to the raw dataset:
\* update_analysis leaves raw_data, its content and the content of the
\* cache entry's raw dataset unchanged, and raw_data is only replaced by a
\* fetch (or bound at construction).
C10_RawNeverMutated ==
    [][/\ AnalysisEvent(op')
            => /\ raw_data' = raw_data
               /\ Content(heap', raw_data') = Content(heap, raw_data)
               /\ cache' = cache
               /\ cache # NoCache => heap'[cache.raw_data] = heap[cache.raw_data]
       /\ (raw_data # NoId /\ raw_data' # NoId
           /\ Content(heap', raw_data') # Content(heap, raw_data))
            => op'.nfetch = 1
       /\ raw_data' # NoId => data' # raw_data']_vars

C10_Witness ==
    /\ AnalysisEvent(op) /\ op.nproc = 1
    /\ cache # NoCache /\ cache.raw_data = raw_data
    /\ heap[data].applied # <<>>

\* the names of a sequence of processing steps
StepNames(process_params) ==
    [i \in 1..Len(process_params) |-> process_params[i].process_name]

StepOrder == <<"TFA_Preprocess", "TFA_Clean", "TFA_Filter", "TFA_Wavelet">>

\* C12: every configuration make_config produces lists the four steps in
\* the order preprocess, clean, filter, wavelet, and the steps reach the
\* processing collaborator in that order: a dataset processed by a handler
\* of the instance has the steps of the configuration applied in that order
\* (a leading part of them when a step raised).
C12_FixedStepOrder ==
    /\ make_config(Cur) # ConfigError
        => StepNames(make_config(Cur).process_params) = StepOrder
    /\ \A i \in Ids \ CacheRefs(cache) :
        heap[i] # NoObj
            => StepNames(heap[i].applied)
                 = SubSeq(StepOrder, 1, Len(heap[i].applied))
    /\ ((UserEvent(op) \/ op.name = "__init__") /\ op.nproc > 0 /\ ~op.raised /\ ~op.caught)
        => StepNames(heap[data].applied) = StepOrder

C12_Witness ==
    /\ op.name = "change_widget" /\ op.widget = "clean-method"
    /\ op.nproc = 1 /\ ~op.raised
    /\ heap[data].applied = make_config(Cur).process_params

\* C13: with unchanged widget values and raw data and deterministic
\* collaborators, a second run of update_analysis leaves the processed
\* dataset, the title, the data view and both snippets as the first run
\* left them, and a second run of update_input_data leaves the same raw and
\* processed datasets as the first.
C13_Idempotent ==
    [][/\ (/\ (AnalysisEvent(op) \/ op.name = "click_fetch")
           /\ ~op.raised /\ ~op.nodata /\ ~op.skipped
           /\ op'.name = "click_run_analysis" /\ ~op'.raised)
            => /\ Content(heap', data') = Content(heap, data)
               /\ output_title' = output_title
               /\ data_view' = data_view
               /\ code_snippet' = code_snippet
               /\ cli_command' = cli_command
               /\ swarmpal_quicklook' = swarmpal_quicklook
       /\ (/\ op.name = "click_fetch" /\ op.nfetch = 1 /\ ~op.raised
           /\ op'.name = "click_fetch" /\ op'.nfetch = 1 /\ ~op'.raised
           /\ heap'[raw_data'].empty = heap[raw_data].empty)
            => /\ Content(heap', raw_data') = Content(heap, raw_data)
               /\ Content(heap', data') = Content(heap, data)]_vars

C13_Witness ==
    /\ op.name = "click_run_analysis" /\ op.again
    /\ op.nproc = 1 /\ ~op.raised
    /\ swarmpal_quicklook.kind = "fig"

\* C19: rendering the data view never propagates a failure: when the HTML
\* representation raises, the handler goes on with the plain textual dump
\* as the data view.
C19_DataViewNeverRaises ==
    op.viewfail => (~op.raised /\ ~op.caught /\ data_view.kind = "pre")

\* the successor of key v in the cyclic ascending order of the key set
CyclicNext(keyset, v) ==
    IF \E k \in keyset : k > v
    THEN CHOOSE k \in keyset : k > v /\ \A j \in keyset : j > v => k <= j
    ELSE CHOOSE k \in keyset : \A j \in keyset : k <= j

\* C14: while the animation plays a tick of the timer started for the
\* current frames moves the slider from a key to the next key in cyclic
\* ascending order, from the maximum key to the minimum key.
C14_TickCyclic ==
    [][(/\ dop'.name = "advance_frame"
        /\ dsecs.animation_playing
        /\ \A t \in timers : t.frames = dsecs.animation_figures.keys
        /\ dsecs.frame_slider.value \in Range(dsecs.animation_figures.keys))
         => dsecs'.frame_slider.value
              = CyclicNext(Range(dsecs.animation_figures.keys),
                           dsecs.frame_slider.value)]_vars

\* C15: after the user moves the frame slider to i, the pane shows the
\* frame for i.
C15_ScrubShowsFrame ==
    dop.name = "frame_slider"
        => dsecs.swarmpal_animated = Figure(dsecs.frame_slider.value)

\* the last event loaded a file and _setup_animated_quicklook ran in it
SetupRan ==
    /\ dop.name = "load_netcdf_data"
    /\ dsecs.status_info = "Pre-computed DSECS results loaded successfully!"

\* C16: after _setup_animated_quicklook ran with a non-empty frame set the
\* player is stopped, no periodic callback is live and the slider is at the
\* minimum key.
C16_RepopulationStops ==
    SetupRan
        => /\ ~dsecs.animation_playing
           /\ timers = {}
           /\ dsecs.frame_slider.value = min(dsecs.animation_figures.keys)

\* C17: whenever the frame set is empty the play button and the slider are
\* disabled and the quicklook pane shows the placeholder figure.
C17_EmptyFramesPlaceholder ==
    dsecs.animation_figures.keys = <<>>
        => /\ dsecs.play_button.disabled
           /\ dsecs.frame_slider.disabled
           /\ dsecs.swarmpal_animated = _pending_matplotlib_figure

\* C18: at most one periodic callback is live, one is live exactly when
\* animation_playing is true and it is the one the instance holds, and a
\* toggle from playing to stopped leaves no live callback.
C18_OneCallback ==
    /\ Cardinality(timers) <= 1
    /\ (timers # {}) <=> dsecs.animation_playing
    /\ IF timers = {}
       THEN dsecs._animation_callback = NoCallback
       ELSE \A t \in timers : t.id = dsecs._animation_callback
    /\ (dop.name = "_toggle_animation" /\ ~dsecs.animation_playing)
        => timers = {}

C18_Witness ==
    /\ dop.name = "_toggle_animation"
    /\ ~dsecs.animation_playing
    /\ ~dsecs.play_button.disabled
    /\ timers = {}

\* the last event loaded a file and _update_data_view ran in it
ViewRendered ==
    /\ dop.name = "load_netcdf_data"
    /\ dsecs.status_info \in {"Pre-computed DSECS results loaded successfully!",
                              "Raw data loaded from NetCDF",
                              "Plotting error",
                              "No figures generated from DSECS quicklook"}

C21_PendingPlaceholder ==
    (dsecs.data # NoData /\ ~dsecs.analyzed)
        => dsecs.swarmpal_animated = _pending_matplotlib_figure

\* C22 as stated: the loading indicator is off whenever no handler runs,
\* and no fetch and no processing call is ever made while it is off.
C22_IndicatorCoversEveryCall ==
    /\ ~is_loading
    /\ ~op.dark

\* C22, amended: the loading indicator is off whenever no handler runs,
\* however the handler ended, and every fetch and processing call made by a
\* handler of the TFA_GUI instance is made while it is on; the calls of the
\* module-level _populate_tfa_cache are made without an indicator.
C22_IndicatorCoversHandlerCalls ==
    /\ ~is_loading
    /\ op.name # "_populate_tfa_cache" => ~op.dark

C22_Witness ==
    /\ op.name = "click_fetch"
    /\ op.raised /\ op.nfetch = 1 /\ op.nproc = 1
    /\ ~op.dark
    /\ ~is_loading

\* C23: a fetch triggered on the CDF tab with no file uploaded fetches and
\* processes nothing, leaves the raw and processed datasets and the cache
\* as they were, and tells the user about the missing file by a log entry
\* or a status message.
C23_MissingFileSurfaced ==
    [][(op'.name = "click_fetch" /\ op'.skipped)
        => /\ op'.nfetch = 0 /\ op'.nproc = 0
           /\ Content(heap', raw_data') = Content(heap, raw_data)
           /\ Content(heap', data') = Content(heap, data)
           /\ cache' = cache
           /\ (op'.logged \/ output_title' # output_title)]_vars

\* C24: after any sequence of load, fetch, preprocessing and analysis
\* operations analyzed implies preprocessed and preprocessed implies that
\* data is present, and no process was invoked outside its precondition:
\* Preprocess only with data present, Analysis only with data present and
\* preprocessed true.
C24_FlagsOrdered ==
    /\ dsecs.analyzed => dsecs.preprocessed
    /\ dsecs.preprocessed => dsecs.data # NoData
    /\ ~dop.misuse

C24_Witness ==
    /\ dop.name = "run_analysis" /\ dop.called = "Analysis"
    /\ dsecs.status_info = "Analysis failed"
    /\ dsecs.preprocessed /\ ~dsecs.analyzed
    /\ dsecs.data.groups = "MAGA_MAGC"

====
